---- MODULE Spec2Model ----
(***************************************************************************)
(* HPO4DL: the ConfigurationManager (configuration_manager.py) and the     *)
(* GrayBoxWrapper (graybox_wrapper.py) as state machines.                  *)
(*                                                                         *)
(* A Python dict is modelled as the sequence of its (key, value) items in  *)
(* insertion order (configurations) or as a function from its keys         *)
(* (result records).  Two specifications share the module: SpecManager     *)
(* runs the ConfigurationManager, SpecWrapper the GrayBoxWrapper; the two  *)
(* objects share no mutable state.                                         *)
(***************************************************************************)
EXTENDS Integers, Sequences, FiniteSets, TLC

(***************************************************************************)
(* Bounds of the model.                                                    *)
(***************************************************************************)
\* number of choices of the categorical hyperparameter "a": the search
\* space holds exactly NumChoices distinct configurations
NumChoices == 2
\* largest pool the model lets add/set build
MaxPool == 3
\* explicit max_try_limit arguments range over 0..MaxRounds (and the default)
MaxRounds == 1
\* target epochs range over 1..MaxEpoch
MaxEpoch == 2
\* longest configuration_info / epoch list handed to start_trial
MaxBatch == 2

\* default of max_try_limit (configuration_manager.py line 86)
DefaultMaxTryLimit == 100

VARIABLES
    \* ---- ConfigurationManager fields
    configurations,                   \* List[Dict]: the pool, id = index - 1
    configurations_set,               \* Set[Tuple]: canonical tuples
    configurations_df,                \* pd.DataFrame: tabular projection
    all_unique_configurations_added,  \* the duplicate-tolerant flag
    \* ---- the running add_configurations call (its frame)
    cm_pc,                            \* "idle", "loop", "dead"
    num_configurations,               \* argument of the running call
    max_try_limit,                    \* argument of the running call
    num_added,                        \* local
    num_tries,                        \* local
    \* ---- observation of the ConfigurationManager
    cm_depth,                         \* recursion depth of the running add call
    cm_call                           \* the last top-level call and its outcome

cm_vars == <<configurations, configurations_set, configurations_df,
             all_unique_configurations_added, cm_pc, num_configurations,
             max_try_limit, num_added, num_tries, cm_depth, cm_call>>

VARIABLES
    \* ---- GrayBoxWrapper fields
    previous_fidelities,              \* Dict[int, int]: the Fidelity Ledger
    trial_results,                    \* Dict[(int, int), List[Dict]]: the cache
    checkpoint_root,                  \* does the directory checkpoint_path exist
    \* ---- the running start_trial call (its frame)
    gw_pc,                            \* "idle", "running", "none"
    batch,                            \* zip(configuration_info, epoch)
    position,                         \* index in batch of the next request
    all_configuration_results,        \* local of start_trial
    \* ---- observation of the GrayBoxWrapper
    gw_call,                          \* the last call and its outcome
    invocations,                      \* per processed request of the call: was
                                      \* the objective function invoked
    invoked,                          \* pairs the objective function ever ran for
    evaluated,                        \* pairs it ran for successfully
    latest,                           \* per id: target epoch of its latest
                                      \* successful objective function run
    first_results,                    \* per pair: records of its first successful request
    misused,                          \* ids once requested below their ledger value
    handed                            \* <<arguments>> of the latest objective function
                                      \* call of the call, <<>> when there is none

gw_vars == <<previous_fidelities, trial_results, checkpoint_root, gw_pc, batch,
             position, all_configuration_results, gw_call,
             invocations, invoked, evaluated, latest, first_results, misused,
             handed>>

vars == <<cm_vars, gw_vars>>

(***************************************************************************)
(* Generic helpers.                                                        *)
(***************************************************************************)
Range(s) == {s[i] : i \in 1..Len(s)}

Min(a, b) == IF a <= b THEN a ELSE b

\* sequences over S of length exactly n / at most n
SeqOfLen(S, n) == [1..n -> S]

SeqUpTo(S, n) == UNION {SeqOfLen(S, k) : k \in 0..n}

(***************************************************************************)
(* The search space (external ConfigSpace object): a categorical           *)
(* hyperparameter "a" and a log-scaled integer hyperparameter "b",         *)
(* declared in that order.                                                 *)
(***************************************************************************)
Hyperparameters ==
    << [name |-> "a", categorical |-> TRUE,  log |-> FALSE, values |-> 0..(NumChoices - 1)],
       [name |-> "b", categorical |-> FALSE, log |-> TRUE,  values |-> {1}] >>

\* Python's order on the hyperparameter names (str comparison)
NameRank(name) == CASE name = "a" -> 1 [] name = "b" -> 2

\* dict access: the value of `name` in a configuration (a sequence of items)
HasKey(config, name) == \E i \in 1..Len(config) : config[i][1] = name

GetItem(config, name) ==
    LET i == CHOOSE i \in 1..Len(config) : config[i][1] = name IN config[i][2]

Keys(config) == {config[i][1] : i \in 1..Len(config)}

\* the dicts sample_configuration can produce: every hyperparameter, in
\* declaration order
SampledConfigurations ==
    {<< <<"a", va>>, <<"b", vb>> >> : va \in Hyperparameters[1].values,
                                       vb \in Hyperparameters[2].values}

\* the dicts a caller can hand to set_configuration: the same assignments
\* with the keys in either insertion order
CallerConfigurations ==
    SampledConfigurations \cup
    {<< c[2], c[1] >> : c \in SampledConfigurations}

\* filter of a sequence of names by a predicate on the hyperparameter
RECURSIVE NamesWhere(_, _)
NamesWhere(hps, kind) ==
    IF hps = <<>> THEN <<>>
    ELSE LET h == Head(hps)
             k == IF h.categorical THEN "categorical"
                  ELSE IF h.log THEN "log" ELSE "rem"
         IN (IF k = kind THEN <<h.name>> ELSE <<>>) \o NamesWhere(Tail(hps), kind)

\* get_configuration_names: log columns, other columns, categorical columns
get_configuration_names ==
    NamesWhere(Hyperparameters, "log") \o NamesWhere(Hyperparameters, "rem")
        \o NamesWhere(Hyperparameters, "categorical")

configuration_names == get_configuration_names

(***************************************************************************)
(* tuple(sorted(config.items())): the items in ascending order of their    *)
(* names (the names of a dict are distinct, so the values never decide).   *)
(***************************************************************************)
ItemsBefore(config, item) ==
    {other \in Range(config) : NameRank(other[1]) < NameRank(item[1])}

SortedItems(config) ==
    [n \in 1..Len(config) |->
        CHOOSE item \in Range(config) :
            Cardinality(ItemsBefore(config, item)) = n - 1]

config_tuple(config) == SortedItems(config)

(***************************************************************************)
(* pandas: pd.DataFrame(list of dicts) and df[list of names].              *)
(* A frame is its list of column names and its rows; a row maps each       *)
(* column name to the dict's value, or to "NaN" when the dict lacks it.    *)
(***************************************************************************)
\* the first record that has the key, and the key's place in that record
FirstRecordWith(records, key) ==
    CHOOSE i \in 1..Len(records) :
        /\ HasKey(records[i], key)
        /\ \A j \in 1..(i - 1) : ~HasKey(records[j], key)

PlaceIn(config, key) == CHOOSE i \in 1..Len(config) : config[i][1] = key

AppearsBefore(records, k1, k2) ==
    LET r1 == FirstRecordWith(records, k1)
        r2 == FirstRecordWith(records, k2)
    IN \/ r1 < r2
       \/ r1 = r2 /\ PlaceIn(records[r1], k1) < PlaceIn(records[r2], k2)

\* columns of pd.DataFrame(records): the keys in order of first appearance
ColumnsOf(records) ==
    LET keys == UNION {Keys(records[i]) : i \in 1..Len(records)}
    IN [n \in 1..Cardinality(keys) |->
           CHOOSE k \in keys :
               Cardinality({k2 \in keys : AppearsBefore(records, k2, k)}) = n - 1]

\* a row of the frame: the value of each column, "NaN" where the dict
\* lacks the key
RowOf(config, names) ==
    [name \in names |-> IF HasKey(config, name) THEN GetItem(config, name) ELSE "NaN"]

AllKeys(records) == UNION {Keys(records[i]) : i \in 1..Len(records)}

DataFrame(records) ==
    [columns |-> ColumnsOf(records),
     rows    |-> [i \in 1..Len(records) |-> RowOf(records[i], AllKeys(records))]]

\* df[names] raises KeyError when a name is no column of df
SelectRaises(df, names) == \E j \in 1..Len(names) : names[j] \notin Range(df.columns)

\* df[names]: the named columns, in the order of names
Select(df, names) ==
    [columns |-> names,
     rows    |-> [i \in 1..Len(df.rows) |->
                     [name \in Range(names) |-> df.rows[i][name]]]]

(***************************************************************************)
(* ConfigurationManager.                                                   *)
(***************************************************************************)
\* get_configuration(configuration_id): ids are 0-based list indices
get_configuration(configuration_id) == configurations[configuration_id + 1]

\* get_configurations()
get_configurations == configurations_df

\* an acceptance test that ignores the flag
Accepts_unique(tuple, cset, flag) == tuple \notin cset

\* line 107: a candidate is inserted when its tuple is new or the flag is set
Accepts(tuple, cset, flag) == tuple \notin cset \/ flag

\* lines 105-110: the for loop over one batch of sampled candidates; `st` is
\* [pool, cset, added]
RECURSIVE InsertCandidates(_, _, _)
InsertCandidates(cands, st, flag) ==
    IF cands = <<>> THEN st
    ELSE LET config == Head(cands)
             tuple  == config_tuple(config)
             next   == IF Accepts(tuple, st.cset, flag)
                       THEN [pool  |-> Append(st.pool, config),
                             cset  |-> st.cset \cup {tuple},
                             added |-> st.added + 1]
                       ELSE st
         IN InsertCandidates(Tail(cands), next, flag)

\* generate_configurations(n): the sampler returns n configurations of the
\* search space, any of them, repeats included
generate_configurations(n) == SeqOfLen(SampledConfigurations, n)

\* line 99: the while condition
LoopCondition == num_added < num_configurations /\ num_tries < max_try_limit

\* lines 112-113: the projection is rebuilt from the whole pool; the column
\* selection raises KeyError when the frame lacks a configuration name, and
\* the frame of line 112 is then what stays assigned
RebuildRaises(pool) == SelectRaises(DataFrame(pool), configuration_names)

\* a projection that is not rebuilt
Rebuild_keep(pool) == configurations_df

Rebuild(pool) ==
    IF RebuildRaises(pool) THEN DataFrame(pool)
    ELSE Select(DataFrame(pool), configuration_names)

\* the frame of a fresh add_configurations call
EnterAdd(n, limit) ==
    /\ num_configurations' = n
    /\ max_try_limit' = limit
    /\ num_added' = 0
    /\ num_tries' = 0
    /\ cm_pc' = "loop"

\* the call is over (returned or raised): its locals are gone
LeaveAdd(pc) ==
    /\ num_configurations' = 0
    /\ max_try_limit' = 0
    /\ num_added' = 0
    /\ num_tries' = 0
    /\ cm_depth' = 0
    /\ cm_pc' = pc

\* the limits a caller passes: small explicit ones and the default
TryLimits == (0..MaxRounds) \cup {DefaultMaxTryLimit}

\* __init__ up to the call of line 41: empty pool, flag false, and
\* add_configurations(num_configurations) about to run with the default limit
ManagerInit ==
    /\ configurations = <<>>
    /\ configurations_set = {}
    /\ configurations_df = [columns |-> <<>>, rows |-> <<>>]
    /\ all_unique_configurations_added = FALSE
    /\ num_configurations \in 0..MaxPool
    /\ max_try_limit = DefaultMaxTryLimit
    /\ num_added = 0
    /\ num_tries = 0
    /\ cm_pc = "loop"
    /\ cm_depth = 0
    /\ cm_call = [op |-> "init", start |-> 0, count |-> num_configurations,
                  limit |-> DefaultMaxTryLimit, outcome |-> "running"]

\* a caller's add_configurations(n, limit) on the constructed manager
add_configurations(n, limit) ==
    /\ UNCHANGED gw_vars
    /\ cm_pc = "idle"
    /\ Len(configurations) + n <= MaxPool
    /\ EnterAdd(n, limit)
    /\ cm_depth' = 0
    /\ cm_call' = [op |-> "add", start |-> Len(configurations), count |-> n,
                   limit |-> limit, outcome |-> "running"]
    /\ UNCHANGED <<configurations, configurations_set, configurations_df,
                   all_unique_configurations_added>>

\* lines 99-111: one iteration of the while loop
AddRound ==
    /\ UNCHANGED gw_vars
    /\ cm_pc = "loop"
    /\ LoopCondition
    /\ \E cands \in generate_configurations(num_configurations - num_added) :
         LET st == InsertCandidates(cands,
                       [pool |-> configurations, cset |-> configurations_set,
                        added |-> num_added],
                       all_unique_configurations_added)
         IN /\ configurations' = st.pool
            /\ configurations_set' = st.cset
            /\ num_added' = st.added
    /\ num_tries' = num_tries + 1
    /\ UNCHANGED <<configurations_df, all_unique_configurations_added, cm_pc,
                   num_configurations, max_try_limit, cm_depth, cm_call>>

\* a comparison that can never succeed: the refill of line 117 is lost
ExhaustedNever == num_tries > max_try_limit

\* line 115: the rounds are used up
Exhausted == num_tries = max_try_limit

\* an add call that clears the flag when it returns
AddFinish_reset ==
    /\ UNCHANGED gw_vars
    /\ cm_pc = "loop"
    /\ ~LoopCondition
    /\ configurations_df' = Rebuild(configurations)
    /\ UNCHANGED <<configurations, configurations_set>>
    /\ IF RebuildRaises(configurations)
       THEN /\ LeaveAdd(IF cm_call.op = "init" THEN "dead" ELSE "idle")
            /\ cm_call' = [cm_call EXCEPT !.outcome = "KeyError"]
            /\ UNCHANGED all_unique_configurations_added
       ELSE IF Exhausted
       THEN /\ all_unique_configurations_added' = TRUE
            /\ EnterAdd(num_configurations - num_added, DefaultMaxTryLimit)
            /\ cm_depth' = cm_depth + 1
            /\ UNCHANGED cm_call
       ELSE /\ LeaveAdd("idle")
            /\ cm_call' = [cm_call EXCEPT !.outcome = "returned"]
            /\ all_unique_configurations_added' = FALSE

\* lines 112-117: after the loop the projection is rebuilt; a KeyError
\* leaves the call (and, inside __init__, leaves no manager); otherwise the
\* call either sets the flag and re-enters itself for the deficit, or returns
AddFinish ==
    /\ UNCHANGED gw_vars
    /\ cm_pc = "loop"
    /\ ~LoopCondition
    /\ configurations_df' = Rebuild(configurations)
    /\ UNCHANGED <<configurations, configurations_set>>
    /\ IF RebuildRaises(configurations)
       THEN /\ LeaveAdd(IF cm_call.op = "init" THEN "dead" ELSE "idle")
            /\ cm_call' = [cm_call EXCEPT !.outcome = "KeyError"]
            /\ UNCHANGED all_unique_configurations_added
       ELSE IF Exhausted
       THEN /\ all_unique_configurations_added' = TRUE
            /\ EnterAdd(num_configurations - num_added, DefaultMaxTryLimit)
            /\ cm_depth' = cm_depth + 1
            /\ UNCHANGED cm_call
       ELSE /\ LeaveAdd("idle")
            /\ cm_call' = [cm_call EXCEPT !.outcome = "returned"]
            /\ UNCHANGED all_unique_configurations_added

\* a set_configuration that inserts at the front of the pool
set_configuration_front(configuration) ==
    /\ UNCHANGED gw_vars
    /\ cm_pc = "idle"
    /\ Len(configurations) < MaxPool
    /\ configurations' = <<configuration>> \o configurations
    /\ configurations_set' = configurations_set \cup {config_tuple(configuration)}
    /\ configurations_df' = Rebuild(configurations')
    /\ cm_call' = [op |-> "set", start |-> Len(configurations), count |-> 1,
                   limit |-> 0, outcome |-> "returned"]
    /\ UNCHANGED <<all_unique_configurations_added, cm_pc, num_configurations,
                   max_try_limit, num_added, num_tries, cm_depth>>

\* lines 122-126
set_configuration(configuration) ==
    /\ UNCHANGED gw_vars
    /\ cm_pc = "idle"
    /\ Len(configurations) < MaxPool
    /\ configurations' = Append(configurations, configuration)
    /\ configurations_set' = configurations_set \cup {config_tuple(configuration)}
    /\ configurations_df' = Rebuild(configurations')
    /\ cm_call' = [op |-> "set", start |-> Len(configurations), count |-> 1,
                   limit |-> 0,
                   outcome |-> IF RebuildRaises(configurations') THEN "KeyError"
                               ELSE "returned"]
    /\ UNCHANGED <<all_unique_configurations_added, cm_pc, num_configurations,
                   max_try_limit, num_added, num_tries, cm_depth>>

AddCall == \E n \in 0..MaxPool, limit \in TryLimits : add_configurations(n, limit)

SetCall == \E configuration \in CallerConfigurations : set_configuration(configuration)

\* lines 65-77 and 154-162: the read operations (get_configurations,
\* get_configuration, get_log_indicator, get_categorical_indicator) return
\* a field and assign nothing
ReadCall ==
    /\ UNCHANGED gw_vars
    /\ cm_pc = "idle"
    /\ \E configuration_id \in 0..(Len(configurations) - 1) :
          get_configuration(configuration_id) \in Range(configurations)
    /\ cm_call' = [op |-> "get", start |-> Len(get_configurations.rows), count |-> 0,
                   limit |-> 0, outcome |-> "returned"]
    /\ UNCHANGED <<configurations, configurations_set, configurations_df,
                   all_unique_configurations_added, cm_pc, num_configurations,
                   max_try_limit, num_added, num_tries, cm_depth>>

NextManager ==
    \/ AddCall
    \/ AddRound
    \/ AddFinish
    \/ SetCall
    \/ ReadCall

\* no GrayBoxWrapper has been built
NoWrapper ==
    /\ previous_fidelities = <<>>
    /\ trial_results = <<>>
    /\ checkpoint_root = FALSE
    /\ gw_pc = "none"
    /\ batch = <<>>
    /\ position = 1
    /\ all_configuration_results = <<>>
    /\ gw_call = [op |-> "none", outcome |-> "none", fault |-> "none",
                  root_existed |-> FALSE, position |-> 0, requests |-> 0,
                  collected |-> 0]
    /\ invocations = <<>>
    /\ invoked = {}
    /\ evaluated = {}
    /\ latest = <<>>
    /\ first_results = <<>>
    /\ misused = {}
    /\ handed = <<>>

InitManager == ManagerInit /\ NoWrapper

SpecManager == InitManager /\ [][NextManager]_vars

\* the manager keeps running an add call it has started
FairSpecManager == SpecManager /\ WF_vars(AddRound) /\ WF_vars(AddFinish)

(***************************************************************************)
(* GrayBoxWrapper.                                                         *)
(* A result record (a Python dict) is a function from its keys.            *)
(***************************************************************************)
\* the configuration ids a caller evaluates; _run reads and writes only the
\* entries of the id it is called for
ConfigurationIds == {0, 1}

Epochs == 1..MaxEpoch

\* wall-clock durations perf_counter can measure for a call; the quotient
\* by the number of records is exact for every length the model produces
ExecutionTimes == {2}

EmptyDict == [k \in {} |-> 0]

\* d[k] = v
SetItem(d, k, v) == [x \in DOMAIN d \cup {k} |-> IF x = k THEN v ELSE d[x]]

\* ConfigurationInfo(configuration_id, configuration) of an id
ConfigurationInfo(id) ==
    [configuration_id |-> id,
     configuration    |-> << <<"a", id % NumChoices>>, <<"b", 1>> >>]

\* the requests a caller makes: every target epoch for id 0, and the first
\* epoch for id 1 (a second id, to see what a request for one id does to
\* the entries of another)
Requests ==
    {<<ConfigurationInfo(0), e>> : e \in Epochs} \cup {<<ConfigurationInfo(1), 1>>}

\* the argument lists of start_trial: the two lists of a sequence of
\* requests, one of them possibly one entry longer than the other
ArgumentLists ==
    LET Lists(reqs) == [configuration_info |-> [i \in 1..Len(reqs) |-> reqs[i][1]],
                        epoch |-> [i \in 1..Len(reqs) |-> reqs[i][2]]]
        plain == {Lists(reqs) : reqs \in SeqUpTo(Requests, MaxBatch)}
    IN plain
       \cup {[a EXCEPT !.configuration_info = Append(@, ConfigurationInfo(0))] : a \in plain}
       \cup {[a EXCEPT !.epoch = Append(@, 1)] : a \in plain}

\* zip(configuration_info, epoch): pairs up to the shorter list
Zip(infos, epochs) ==
    [i \in 1..Min(Len(infos), Len(epochs)) |-> <<infos[i], epochs[i]>>]

\* what objective_function(configuration, epoch, previous_epoch, path) can
\* return, with the time the call took: a single record, a list of one or
\* two records, records lacking "epoch" or "metric", or an empty list
ObjectiveOutcomes(epoch) ==
    LET good  == [epoch |-> epoch, metric |-> 5]
        early == [epoch |-> epoch - 1, metric |-> 4]
        values ==
          { [is_list |-> FALSE, value |-> good],
            [is_list |-> TRUE,  value |-> <<good>>],
            [is_list |-> TRUE,  value |-> <<early, good>>],
            [is_list |-> TRUE,  value |-> <<[epoch |-> epoch]>>],
            [is_list |-> TRUE,  value |-> <<[metric |-> 5]>>],
            [is_list |-> TRUE,  value |-> <<good, [epoch |-> epoch]>>],
            [is_list |-> FALSE, value |-> [epoch |-> epoch]],
            [is_list |-> TRUE,  value |-> <<>>] }
    IN {[result |-> v, execution_time |-> t] : v \in values, t \in ExecutionTimes}

\* lines 80-81: a result that is no list becomes a one-element list
Normalize(result) == IF result.is_list THEN result.value ELSE <<result.value>>

\* a verification that forgets the "metric" key
VerifyRaises_epoch_only(configuration_result) ==
    \E i \in 1..Len(configuration_result) :
        "epoch" \notin DOMAIN configuration_result[i]

\* lines 108-112: verify_configuration_results raises ValueError
VerifyRaises(configuration_result) ==
    \E i \in 1..Len(configuration_result) :
        \/ "epoch" \notin DOMAIN configuration_result[i]
        \/ "metric" \notin DOMAIN configuration_result[i]

\* a division that never raises
DivisionRaises_never(configuration_result) == FALSE

\* line 85: the division raises ZeroDivisionError
DivisionRaises(configuration_result) == Len(configuration_result) = 0

\* lines 89-94: {**entry, 'configuration_id': .., 'configuration': .., 'time': ..}
Enrich(entry, configuration_id, configuration, time) ==
    [k \in DOMAIN entry \cup {"configuration_id", "configuration", "time"} |->
        CASE k = "configuration_id" -> configuration_id
          [] k = "configuration"    -> configuration
          [] k = "time"             -> time
          [] OTHER                  -> entry[k]]

\* lines 85-95
EnrichAll(configuration_result, configuration_id, configuration, execution_time) ==
    LET single_epoch_execution_time == execution_time \div Len(configuration_result)
    IN [i \in 1..Len(configuration_result) |->
           Enrich(configuration_result[i], configuration_id, configuration,
                  single_epoch_execution_time)]

\* a previous epoch that is always 0 (training from scratch)
PreviousEpoch_zero(configuration_id) == 0

\* lines 68-71: the previous_epoch handed to the objective function
PreviousEpoch(configuration_id) ==
    IF configuration_id \in DOMAIN previous_fidelities
    THEN previous_fidelities[configuration_id]
    ELSE 0

\* a lookup that never finds the pair
IsCached_never(configuration_id, epoch) == FALSE

\* line 62
IsCached(configuration_id, epoch) == <<configuration_id, epoch>> \in DOMAIN trial_results

\* the request _run is about to process
Request == batch[position]

\* the caller asks for an epoch below the one the id has reached
NoteMisuse(configuration_id, epoch) ==
    IF epoch < PreviousEpoch(configuration_id)
    THEN misused \cup {configuration_id}
    ELSE misused

\* the record of a call: what was called and how it ended; for close,
\* whether the checkpoint root existed; for a start_trial that raised, the
\* position of the failing request, the number of requests of the batch
\* and the number of records collected before the failure
Call(op, outcome, fault) ==
    [op |-> op, outcome |-> outcome, fault |-> fault,
     root_existed |-> FALSE, position |-> 0, requests |-> 0, collected |-> 0]

\* __init__: empty ledger and cache; only the parent of the checkpoint root
\* is created
WrapperInit ==
    /\ previous_fidelities = EmptyDict
    /\ trial_results = EmptyDict
    /\ checkpoint_root = FALSE
    /\ gw_pc = "idle"
    /\ batch = <<>>
    /\ position = 1
    /\ all_configuration_results = <<>>
    /\ gw_call = Call("init", "returned", "none")
    /\ invocations = <<>>
    /\ invoked = {}
    /\ evaluated = {}
    /\ latest = EmptyDict
    /\ first_results = EmptyDict
    /\ misused = {}
    /\ handed = <<>>

\* no ConfigurationManager has been built
NoManager ==
    /\ configurations = <<>>
    /\ configurations_set = {}
    /\ configurations_df = [columns |-> <<>>, rows |-> <<>>]
    /\ all_unique_configurations_added = FALSE
    /\ num_configurations = 0
    /\ max_try_limit = 0
    /\ num_added = 0
    /\ num_tries = 0
    /\ cm_pc = "none"
    /\ cm_depth = 0
    /\ cm_call = [op |-> "none", start |-> 0, count |-> 0, limit |-> 0,
                  outcome |-> "none"]

\* lines 42-43: start_trial is entered with an empty result list
start_trial(configuration_info, epoch) ==
    /\ gw_pc = "idle"
    /\ gw_pc' = "running"
    /\ batch' = Zip(configuration_info, epoch)
    /\ position' = 1
    /\ all_configuration_results' = <<>>
    /\ gw_call' = Call("start_trial", "running", "none")
    /\ invocations' = <<>>
    /\ handed' = <<>>
    /\ UNCHANGED <<previous_fidelities, trial_results, checkpoint_root, invoked,
                   evaluated, latest, first_results, misused>>
    /\ UNCHANGED cm_vars

\* an assignment in place of the extend
Extend_replace(results, configuration_results) == configuration_results

\* line 45: all_configuration_results.extend(configuration_results)
Extend(results, configuration_results) == results \o configuration_results

\* what is wrong with the records the objective function returned
Fault(result) ==
    LET records == IF result.is_list THEN result.value ELSE <<result.value>>
    IN IF \E i \in 1..Len(records) : ~({"epoch", "metric"} \subseteq DOMAIN records[i])
       THEN "malformed"
       ELSE IF records = <<>> THEN "empty" ELSE "none"

\* lines 62-63 and 45: the pair is cached; its records are returned and
\* appended to the result list
RunCached ==
    /\ gw_pc = "running"
    /\ position <= Len(batch)
    /\ LET configuration_id == Request[1].configuration_id
           epoch == Request[2]
           configuration_results == trial_results[<<configuration_id, epoch>>]
       IN /\ IsCached(configuration_id, epoch)
          /\ all_configuration_results' = Extend(all_configuration_results, configuration_results)
          /\ misused' = NoteMisuse(configuration_id, epoch)
          /\ first_results' =
                IF <<configuration_id, epoch>> \in DOMAIN first_results
                THEN first_results
                ELSE SetItem(first_results, <<configuration_id, epoch>>, configuration_results)
    /\ position' = position + 1
    /\ invocations' = Append(invocations, FALSE)
    /\ UNCHANGED <<previous_fidelities, trial_results, checkpoint_root, gw_pc, batch,
                   gw_call, invoked, evaluated, latest, handed>>
    /\ UNCHANGED cm_vars

\* the call is over (returned or raised): its locals are gone
LeaveStartTrial(outcome, fault) ==
    /\ gw_pc' = "idle"
    /\ gw_call' = [gw_call EXCEPT
                      !.outcome = outcome, !.fault = fault,
                      !.position = IF outcome = "returned" THEN 0 ELSE position,
                      !.requests = IF outcome = "returned" THEN 0 ELSE Len(batch),
                      !.collected = IF outcome = "returned" THEN 0
                                    ELSE Len(all_configuration_results)]
    /\ batch' = <<>>
    /\ position' = 1
    /\ all_configuration_results' = <<>>
    /\ invocations' = <<>>

\* a failed request that is skipped: the batch goes on with the next one
Raise_skip(error, fault) ==
    /\ gw_call' = [gw_call EXCEPT !.fault = fault]
    /\ position' = position + 1
    /\ invocations' = Append(invocations, TRUE)
    /\ UNCHANGED <<gw_pc, batch, all_configuration_results>>
    /\ UNCHANGED <<previous_fidelities, trial_results, evaluated, latest,
                   first_results>>

\* the exception of a failed request leaves _run and start_trial
Raise(error, fault) ==
    /\ LeaveStartTrial(error, fault)
    /\ UNCHANGED <<previous_fidelities, trial_results, evaluated, latest,
                   first_results>>

\* a ledger that is never written
LedgerAfter_unchanged(configuration_id, epoch) == previous_fidelities

\* a ledger that keeps the highest epoch instead of the requested one
LedgerAfter_highest(configuration_id, epoch) ==
    SetItem(previous_fidelities, configuration_id,
            IF configuration_id \in DOMAIN previous_fidelities
               /\ previous_fidelities[configuration_id] > epoch
            THEN previous_fidelities[configuration_id]
            ELSE epoch)

\* line 97: self.previous_fidelities[configuration_id] = epoch
LedgerAfter(configuration_id, epoch) ==
    SetItem(previous_fidelities, configuration_id, epoch)

\* a _run that writes the ledger but not the cache
Store_uncached(configuration_id, epoch, configuration_results, fault) ==
    /\ previous_fidelities' = LedgerAfter(configuration_id, epoch)
    /\ trial_results' = trial_results
    /\ all_configuration_results' = Extend(all_configuration_results, configuration_results)
    /\ evaluated' = evaluated \cup {<<configuration_id, epoch>>}
    /\ latest' = SetItem(latest, configuration_id, epoch)
    /\ first_results' =
          IF <<configuration_id, epoch>> \in DOMAIN first_results
          THEN first_results
          ELSE SetItem(first_results, <<configuration_id, epoch>>, configuration_results)
    /\ position' = position + 1
    /\ invocations' = Append(invocations, TRUE)
    /\ gw_call' = [gw_call EXCEPT !.fault = fault]
    /\ UNCHANGED <<gw_pc, batch>>

\* lines 87-100 and 45: the enriched records are stored and returned
Store(configuration_id, epoch, configuration_results, fault) ==
    /\ previous_fidelities' = LedgerAfter(configuration_id, epoch)
    /\ trial_results' = SetItem(trial_results, <<configuration_id, epoch>>,
                                configuration_results)
    /\ all_configuration_results' = Extend(all_configuration_results, configuration_results)
    /\ evaluated' = evaluated \cup {<<configuration_id, epoch>>}
    /\ latest' = SetItem(latest, configuration_id, epoch)
    /\ first_results' =
          IF <<configuration_id, epoch>> \in DOMAIN first_results
          THEN first_results
          ELSE SetItem(first_results, <<configuration_id, epoch>>, configuration_results)
    /\ position' = position + 1
    /\ invocations' = Append(invocations, TRUE)
    /\ gw_call' = [gw_call EXCEPT !.fault = fault]
    /\ UNCHANGED <<gw_pc, batch>>

\* lines 65-100: the pair is not cached; the checkpoint directory's parent
\* (the checkpoint root) is created, the objective function runs, and its
\* result is verified, enriched and stored
RunObjective ==
    /\ gw_pc = "running"
    /\ position <= Len(batch)
    /\ LET configuration_id == Request[1].configuration_id
           configuration == Request[1].configuration
           epoch == Request[2]
       IN /\ ~IsCached(configuration_id, epoch)
          /\ checkpoint_root' = TRUE
          /\ invoked' = invoked \cup {<<configuration_id, epoch>>}
          /\ misused' = NoteMisuse(configuration_id, epoch)
          /\ handed' = << [configuration_id |-> configuration_id,
                           configuration |-> configuration,
                           epoch |-> epoch,
                           previous_epoch |-> PreviousEpoch(configuration_id),
                           root_existed |-> checkpoint_root] >>
          /\ \E outcome \in ObjectiveOutcomes(epoch) :
               LET configuration_result == Normalize(outcome.result)
               IN IF VerifyRaises(configuration_result)
                  THEN Raise("ValueError", Fault(outcome.result))
                  ELSE IF DivisionRaises(configuration_result)
                  THEN Raise("ZeroDivisionError", Fault(outcome.result))
                  ELSE Store(configuration_id, epoch,
                             EnrichAll(configuration_result, configuration_id,
                                       configuration, outcome.execution_time),
                             Fault(outcome.result))
    /\ UNCHANGED cm_vars

\* line 47: every request is processed; start_trial returns
\* all_configuration_results
ReturnResults ==
    /\ gw_pc = "running"
    /\ position > Len(batch)
    /\ LeaveStartTrial("returned", "none")
    /\ handed' = <<>>
    /\ UNCHANGED <<previous_fidelities, trial_results, checkpoint_root,
                   invoked, evaluated, latest, first_results, misused>>
    /\ UNCHANGED cm_vars

\* a close that also drops the cached results
close_and_forget ==
    /\ gw_pc = "idle"
    /\ checkpoint_root' = FALSE
    /\ trial_results' = EmptyDict
    /\ gw_call' = [Call("close", "returned", "none") EXCEPT
                      !.root_existed = checkpoint_root]
    /\ UNCHANGED <<previous_fidelities, gw_pc, batch, position,
                   all_configuration_results, invocations, invoked,
                   evaluated, latest, first_results, misused, handed>>
    /\ UNCHANGED cm_vars

\* a close that removes the tree without looking whether it exists
close_unguarded ==
    /\ gw_pc = "idle"
    /\ checkpoint_root' = FALSE
    /\ gw_call' = [Call("close", IF checkpoint_root THEN "returned"
                                 ELSE "FileNotFoundError", "none") EXCEPT
                      !.root_existed = checkpoint_root]
    /\ UNCHANGED <<previous_fidelities, trial_results, gw_pc, batch, position,
                   all_configuration_results, invocations, invoked,
                   evaluated, latest, first_results, misused, handed>>
    /\ UNCHANGED cm_vars

\* a close that also resets the ledger
close_and_reset ==
    /\ gw_pc = "idle"
    /\ checkpoint_root' = FALSE
    /\ previous_fidelities' = EmptyDict
    /\ gw_call' = [Call("close", "returned", "none") EXCEPT
                      !.root_existed = checkpoint_root]
    /\ UNCHANGED <<trial_results, gw_pc, batch, position,
                   all_configuration_results, invocations, invoked,
                   evaluated, latest, first_results, misused, handed>>
    /\ UNCHANGED cm_vars

\* lines 128-129: the checkpoint root is removed when it exists; when it
\* does not exist nothing is done
close ==
    /\ gw_pc = "idle"
    /\ checkpoint_root' = (IF checkpoint_root THEN FALSE ELSE checkpoint_root)
    /\ gw_call' = [Call("close", "returned", "none") EXCEPT
                      !.root_existed = checkpoint_root]
    /\ UNCHANGED <<previous_fidelities, trial_results, gw_pc, batch, position,
                   all_configuration_results, invocations, invoked,
                   evaluated, latest, first_results, misused, handed>>
    /\ UNCHANGED cm_vars

StartTrialCall ==
    \E args \in ArgumentLists : start_trial(args.configuration_info, args.epoch)

NextWrapper ==
    \/ StartTrialCall
    \/ RunCached
    \/ RunObjective
    \/ ReturnResults
    \/ close

InitWrapper == WrapperInit /\ NoManager

SpecWrapper == InitWrapper /\ [][NextWrapper]_vars

(***************************************************************************)
(* Properties of the ConfigurationManager.                                 *)
(***************************************************************************)
\* two distinct ids hold configurations with the same canonical tuple
HasDuplicates ==
    \E i, j \in 1..Len(configurations) :
        i # j /\ config_tuple(configurations[i]) = config_tuple(configurations[j])

\* C2: in every pool state no two distinct configuration ids hold the same
\* canonical sorted tuple of (name, value) pairs, unless the
\* duplicate-tolerant flag has been set.
C2_DedupInvariant == HasDuplicates => all_unique_configurations_added

\* once an add call (the constructor's included) is over, the pool is exactly
\* `count` entries larger than when the call was made
GrowsByCount ==
    (cm_pc # "loop" /\ cm_call.op \in {"init", "add"})
        => Len(configurations) = cm_call.start + cm_call.count

\* C4: every add call (the constructor's included) terminates, and once it
\* is over the pool is exactly `count` entries larger than when it was
\* called, whatever the sampler returned and whatever the round limit.
C4_AddTerminatesAndFills ==
    /\ [](GrowsByCount)
    /\ (cm_pc = "loop") ~> (cm_pc # "loop")

\* C4 witness: an add call asked for more configurations than the search
\* space holds, degraded to duplicate-tolerant mode and returned with the
\* pool grown by the full count.
C4_Witness ==
    /\ cm_pc = "idle"
    /\ cm_call.op = "add"
    /\ cm_call.outcome = "returned"
    /\ cm_call.count > 0
    /\ all_unique_configurations_added
    /\ HasDuplicates
    /\ Len(configurations) = cm_call.start + cm_call.count

\* C6: the duplicate-tolerant flag becomes true only in an add call that
\* has used up all its rounds and still has a nonzero deficit.
C6_FlagOnlyOnDeficit ==
    [][(~all_unique_configurations_added /\ all_unique_configurations_added')
          => (num_tries = max_try_limit /\ num_added < num_configurations)]_vars

\* C7: the pool is append-only: every id valid before a step is valid after
\* it and get_configuration returns the same dict for it, so a new
\* configuration receives id = previous pool size.
C7_IdStability ==
    [][/\ Len(configurations') >= Len(configurations)
       /\ \A id \in 0..(Len(configurations) - 1) :
              configurations'[id + 1] = get_configuration(id)]_vars

\* C7 witness: set_configuration has appended to a pool that already held
\* sampled configurations.
C7_Witness ==
    /\ cm_call.op = "set"
    /\ cm_call.start > 0
    /\ Len(configurations) = cm_call.start + 1

\* C11: once the duplicate-tolerant flag is true it is true in every later
\* state: no step of an add, set or read operation resets it.
C11_FlagSticky ==
    [][all_unique_configurations_added => all_unique_configurations_added']_vars

\* C11 witness: a set_configuration has completed on a manager whose flag
\* had been set by an earlier add call, and the flag is still true.
C11_Witness ==
    /\ cm_pc = "idle"
    /\ cm_call.op = "set"
    /\ all_unique_configurations_added

\* C12: an add call with count = 0 (the constructor's included) is a no-op:
\* whatever the pool and the round limit, no step of it raises, and none
\* changes the pool, the dedup set or the duplicate-tolerant flag.
C12_AddZeroIsNoOp ==
    [][(cm_pc = "loop" /\ cm_call.op \in {"init", "add"} /\ cm_call.count = 0)
          => /\ configurations' = configurations
             /\ configurations_set' = configurations_set
             /\ all_unique_configurations_added' = all_unique_configurations_added
             /\ cm_call'.outcome # "KeyError"]_vars

\* C15: after every completed initialize, add or set operation every
\* configuration of the pool has its canonical tuple in the dedup set, and
\* the tabular projection has the canonical columns and exactly one row per
\* pool entry, row i holding the values of the configuration with id i.
C15_PoolSetTableConsistent ==
    cm_pc = "idle" =>
        /\ \A i \in 1..Len(configurations) :
               config_tuple(configurations[i]) \in configurations_set
        /\ configurations_df.columns = configuration_names
        /\ Len(configurations_df.rows) = Len(configurations)
        /\ \A i \in 1..Len(configurations) :
               \A name \in Range(configuration_names) :
                   configurations_df.rows[i][name] = GetItem(configurations[i], name)

\* C15 witness: an add call has returned after appending to a pool that
\* already held configurations, and the projection has a row for each.
C15_Witness ==
    /\ cm_pc = "idle"
    /\ cm_call.op = "add"
    /\ cm_call.outcome = "returned"
    /\ cm_call.start > 0
    /\ cm_call.count > 0
    /\ Len(configurations_df.rows) = cm_call.start + cm_call.count

\* C20: an add call re-enters itself at most once; the re-entered call runs
\* with the flag true and the default round limit, and its first sampling
\* round accepts every candidate and fills the whole remaining deficit.
C20_RecursionBounded ==
    /\ cm_depth <= 1
    /\ cm_depth = 1 =>
          /\ all_unique_configurations_added
          /\ max_try_limit = DefaultMaxTryLimit
          /\ num_tries <= 1
          /\ num_tries = 1 => num_added = num_configurations

\* C20 witness: the re-entered call has made its single sampling round and
\* filled a nonzero deficit.
C20_Witness ==
    /\ cm_pc = "loop"
    /\ cm_depth = 1
    /\ num_tries = 1
    /\ num_configurations > 0
    /\ num_added = num_configurations

(***************************************************************************)
(* Properties of the GrayBoxWrapper.                                       *)
(***************************************************************************)
Pairs == {<<r[1].configuration_id, r[2]>> : r \in Requests}

\* the (configuration id, epoch) pair of the j-th request of the batch
PairAt(j) == <<batch[j][1].configuration_id, batch[j][2]>>

\* _run is about to process a request
Processing == gw_pc = "running" /\ position <= Len(batch)

\* this step is a _run call for the pair that returns records
Succeeds(pair) ==
    /\ Processing
    /\ PairAt(position) = pair
    /\ gw_pc' = "running"
    /\ position' = position + 1

\* this step is a _run call for the pair that raises
Fails(pair) ==
    /\ Processing
    /\ PairAt(position) = pair
    /\ gw_pc' = "idle"

\* this step is a _run call for the pair that invokes the objective function
Invokes(pair) ==
    \/ Fails(pair)
    \/ Succeeds(pair) /\ invocations' = Append(invocations, TRUE)

\* the records the successful _run call of this step returned
RunReturned(records) ==
    all_configuration_results' = all_configuration_results \o records

\* the epochs the objective function has run for successfully, per id
EvaluatedEpochs(id) == {e \in Epochs : <<id, e>> \in evaluated}

Highest(S) == CHOOSE e \in S : \A o \in S : o <= e

\* C1 as stated: over any sequence of start_trial calls the objective
\* function is invoked at most once for a (configuration id, epoch) pair.
C1_InvokedAtMostOnce ==
    [][\A pair \in Pairs : Invokes(pair) => pair \notin invoked]_vars

\* C1 amended: once a request for a pair has returned records, every later
\* request for that pair returns records equal to those of that first
\* successful request without invoking the objective function, so the
\* objective function runs successfully at most once for the pair.
C1_CachedAfterSuccess ==
    [][\A pair \in DOMAIN first_results :
          (Processing /\ PairAt(position) = pair)
             => /\ Succeeds(pair)
                /\ ~Invokes(pair)
                /\ invoked' = invoked
                /\ evaluated' = evaluated
                /\ RunReturned(first_results[pair])]_vars

\* C1 witness: a request of the running call was answered from the cache,
\* for a pair the objective function had run for successfully.
C1_Witness ==
    /\ gw_pc = "running"
    /\ \E j \in 1..Len(invocations) :
          /\ ~invocations[j]
          /\ PairAt(j) \in DOMAIN first_results
          /\ PairAt(j) \in evaluated

\* C3: while the caller has never requested an id below its ledger value,
\* a successful request (id, e), invoked or cached, leaves the previous
\* epoch of id equal to e, and the previous epoch of id changes only by a
\* successful request (id, e') with e' above it.
C3_LedgerMonotonic ==
    [][\A id \in ConfigurationIds :
          id \notin misused' =>
             /\ \A e \in Epochs :
                   Succeeds(<<id, e>>) => PreviousEpoch(id)' = e
             /\ PreviousEpoch(id)' # PreviousEpoch(id) =>
                   \E e \in Epochs : /\ e > PreviousEpoch(id)
                                     /\ Succeeds(<<id, e>>)
                                     /\ PreviousEpoch(id)' = e]_vars

\* C3 witness: a well-used id was answered from the cache at an epoch above
\* 1, and its previous epoch is that epoch.
C3_Witness ==
    /\ gw_pc = "running"
    /\ position > 1
    /\ Len(invocations) = position - 1
    /\ ~invocations[position - 1]
    /\ PairAt(position - 1)[1] \notin misused
    /\ PairAt(position - 1)[2] > 1
    /\ PreviousEpoch(PairAt(position - 1)[1]) = PairAt(position - 1)[2]

\* C5: when the objective function returns a record lacking "epoch" or
\* "metric", the request raises ValueError, nothing is written to the cache
\* and the ledger is left as it was.
C5_MalformedLeavesNoTrace ==
    [][(Processing /\ gw_call'.fault = "malformed")
          => /\ gw_pc' = "idle"
             /\ gw_call'.outcome = "ValueError"
             /\ trial_results' = trial_results
             /\ previous_fidelities' = previous_fidelities]_vars

\* C5 witness: a request raised on a malformed record while the ledger and
\* the cache already held entries.
C5_Witness ==
    /\ gw_pc = "idle"
    /\ gw_call.outcome = "ValueError"
    /\ gw_call.fault = "malformed"
    /\ DOMAIN previous_fidelities # {}
    /\ DOMAIN trial_results # {}

\* C8 as stated: the ledger value of an id is the highest target epoch the
\* objective function has run for successfully, and the id is absent from
\* the ledger exactly when there is none.
C8_LedgerIsHighest ==
    \A id \in ConfigurationIds :
        /\ id \in DOMAIN previous_fidelities <=> EvaluatedEpochs(id) # {}
        /\ id \in DOMAIN previous_fidelities
              => previous_fidelities[id] = Highest(EvaluatedEpochs(id))

\* C8 amended: the ledger value of an id is the target epoch of the latest
\* successful objective function run for it (the highest one as long as the
\* caller never requested the id below its ledger value), and the id is
\* absent from the ledger exactly when there was no successful run.
C8_LedgerIsLatest ==
    /\ DOMAIN previous_fidelities = DOMAIN latest
    /\ \A id \in ConfigurationIds :
          /\ id \in DOMAIN previous_fidelities <=> EvaluatedEpochs(id) # {}
          /\ id \in DOMAIN previous_fidelities
                => /\ previous_fidelities[id] = latest[id]
                   /\ previous_fidelities[id] \in EvaluatedEpochs(id)
                   /\ id \notin misused
                         => previous_fidelities[id] = Highest(EvaluatedEpochs(id))

\* C8 witness: an id was evaluated at epoch 2 and afterwards at epoch 1; its
\* ledger value is 1.
C8_Witness ==
    \E id \in ConfigurationIds :
        /\ {1, 2} \subseteq EvaluatedEpochs(id)
        /\ id \in DOMAIN previous_fidelities
        /\ previous_fidelities[id] = 1
        /\ latest[id] = 1

\* C9: a key of the cache is never removed and its value never changed, by
\* start_trial or by close.
C9_CacheWriteOnce ==
    [][\A key \in DOMAIN trial_results :
          /\ key \in DOMAIN trial_results'
          /\ trial_results'[key] = trial_results[key]]_vars

\* C9 witness: after a close, a start_trial call has been answered from a
\* cache that holds several entries.
C9_Witness ==
    /\ gw_pc = "running"
    /\ ~checkpoint_root
    /\ Cardinality(DOMAIN trial_results) >= 2
    /\ \E j \in 1..Len(invocations) : ~invocations[j]

\* the records of the first k requests of the batch, in request order
RECURSIVE RecordsOfFirst(_)
RecordsOfFirst(k) ==
    IF k = 0 THEN <<>>
    ELSE RecordsOfFirst(k - 1) \o trial_results[PairAt(k)]

\* C10: the requests are processed one after another in the given order:
\* after k requests the result list is the concatenation, in request order,
\* of the records of those k requests, which is what start_trial returns
\* after the last one; and of several occurrences of one pair in the batch
\* only the first can invoke the objective function.
C10_ConcatenatesInOrder ==
    gw_pc = "running" =>
        /\ position \in 1..(Len(batch) + 1)
        /\ Len(invocations) = position - 1
        /\ \A k \in 1..(position - 1) : PairAt(k) \in DOMAIN trial_results
        /\ all_configuration_results = RecordsOfFirst(position - 1)
        /\ \A i, j \in 1..(position - 1) :
              (i < j /\ PairAt(i) = PairAt(j)) => ~invocations[j]

\* C10 witness: start_trial is about to return for a batch that names the
\* same pair twice; the first occurrence invoked the objective function,
\* the second was answered from the cache, and both contributed records.
C10_Witness ==
    /\ gw_pc = "running"
    /\ Len(batch) = 2
    /\ position = 3
    /\ PairAt(1) = PairAt(2)
    /\ invocations = <<TRUE, FALSE>>
    /\ all_configuration_results
          = trial_results[PairAt(1)] \o trial_results[PairAt(1)]

\* this step is a close call
CloseStep == gw_pc = "idle" /\ gw_call'.op = "close"

\* C13: close is idempotent: after a close the checkpoint root does not
\* exist and the call has raised nothing; a close called when the root does
\* not exist raises nothing and changes nothing.
C13_CloseIdempotent ==
    [][CloseStep =>
          /\ ~checkpoint_root'
          /\ gw_call'.outcome = "returned"
          /\ ~checkpoint_root =>
                /\ ~gw_call'.root_existed
                /\ UNCHANGED <<previous_fidelities, trial_results, checkpoint_root,
                               gw_pc, batch, position, all_configuration_results,
                               invocations, invoked, evaluated, latest,
                               first_results, misused, handed>>]_vars

\* C13 witness: after results had been cached (so the root had been
\* created), a close was called while the root did not exist.
C13_Witness ==
    /\ gw_call.op = "close"
    /\ gw_call.outcome = "returned"
    /\ ~gw_call.root_existed
    /\ DOMAIN trial_results # {}

\* the ledger value of an id, 0 when the id is absent
LedgerValue(id) ==
    IF id \in DOMAIN previous_fidelities THEN previous_fidelities[id] ELSE 0

\* C14: a request that is no cache hit invokes the objective function with
\* the request's configuration and target epoch and with previous_epoch
\* equal to the id's ledger value (0 when absent); when the returned records
\* are valid the ledger entry of the id becomes the target epoch, the
\* records, each enriched with the same configuration_id, configuration and
\* time, are stored under (id, target epoch), and no other ledger or cache
\* entry changes.
C14_InvokeAndStore ==
    [][(Processing /\ PairAt(position) \notin DOMAIN trial_results) =>
          LET id == PairAt(position)[1]
              e  == PairAt(position)[2]
          IN /\ Invokes(<<id, e>>)
             /\ invoked' = invoked \cup {<<id, e>>}
             /\ Len(handed') = 1
             /\ handed'[1].configuration_id = id
             /\ handed'[1].configuration = batch[position][1].configuration
             /\ handed'[1].epoch = e
             /\ handed'[1].previous_epoch = LedgerValue(id)
             /\ gw_call'.fault = "none" =>
                   /\ Succeeds(<<id, e>>)
                   /\ previous_fidelities' = SetItem(previous_fidelities, id, e)
                   /\ DOMAIN trial_results' = DOMAIN trial_results \cup {<<id, e>>}
                   /\ \A key \in DOMAIN trial_results :
                          trial_results'[key] = trial_results[key]
                   /\ trial_results'[<<id, e>>] # <<>>
                   /\ \A i \in 1..Len(trial_results'[<<id, e>>]) :
                          LET record == trial_results'[<<id, e>>][i]
                          IN /\ {"epoch", "metric"} \subseteq DOMAIN record
                             /\ record.configuration_id = id
                             /\ record.configuration = batch[position][1].configuration
                             /\ record.time = trial_results'[<<id, e>>][1].time
                   /\ RunReturned(trial_results'[<<id, e>>])]_vars

\* C14 witness: the objective function was invoked with a previous epoch
\* above 0 and returned two records, which were stored.
C14_Witness ==
    /\ gw_pc = "running"
    /\ position > 1
    /\ Len(invocations) = position - 1
    /\ invocations[position - 1]
    /\ Len(handed) = 1
    /\ handed[1].previous_epoch > 0
    /\ <<handed[1].configuration_id, handed[1].epoch>> = PairAt(position - 1)
    /\ Len(trial_results[PairAt(position - 1)]) = 2

\* C16: a malformed result aborts the batch: the request raises ValueError
\* at once, the remaining requests of the batch are dropped (the objective
\* function runs for none of them) and the records collected from the
\* requests before it are not returned.
C16_MalformedAbortsBatch ==
    [][(Processing /\ gw_call'.fault = "malformed") =>
          /\ gw_pc' = "idle"
          /\ gw_call'.outcome = "ValueError"
          /\ gw_call'.position = position
          /\ batch' = <<>>
          /\ all_configuration_results' = <<>>
          /\ invoked' = invoked \cup {PairAt(position)}]_vars

\* C16 witness: the second request of a batch raised on a malformed record
\* after the first had contributed records.
C16_Witness ==
    /\ gw_pc = "idle"
    /\ gw_call.outcome = "ValueError"
    /\ gw_call.fault = "malformed"
    /\ gw_call.position = 2
    /\ gw_call.collected > 0

\* C17: for every id of the ledger the key (id, ledger[id]) is in the
\* cache, and for every key (id, e) of the cache the id is in the ledger.
C17_LedgerCacheConsistent ==
    /\ \A id \in DOMAIN previous_fidelities :
          <<id, previous_fidelities[id]>> \in DOMAIN trial_results
    /\ \A key \in DOMAIN trial_results : key[1] \in DOMAIN previous_fidelities

\* C17 witness: two ids are in the ledger, and one of them has a cached
\* epoch above its ledger value.
C17_Witness ==
    /\ Cardinality(DOMAIN previous_fidelities) = 2
    /\ \E key \in DOMAIN trial_results : key[2] > previous_fidelities[key[1]]

\* C18: when the objective function returns an empty list the request
\* raises ZeroDivisionError and changes neither the ledger nor the cache;
\* and a request for an uncached pair the objective function has already
\* run for invokes it again.
C18_EmptyResultFails ==
    [][/\ (Processing /\ gw_call'.fault = "empty") =>
             /\ gw_pc' = "idle"
             /\ gw_call'.outcome = "ZeroDivisionError"
             /\ trial_results' = trial_results
             /\ previous_fidelities' = previous_fidelities
             /\ PairAt(position) \notin DOMAIN trial_results'
       /\ (/\ Processing
           /\ PairAt(position) \in invoked
           /\ PairAt(position) \notin DOMAIN trial_results)
             => Invokes(PairAt(position))]_vars

\* C18 witness: a request raised on an empty result while the ledger
\* already held entries, and its pair is not cached.
C18_Witness ==
    /\ gw_pc = "idle"
    /\ gw_call.outcome = "ZeroDivisionError"
    /\ gw_call.fault = "empty"
    /\ DOMAIN previous_fidelities # {}
    /\ Len(handed) = 1
    /\ <<handed[1].configuration_id, handed[1].epoch>> \notin DOMAIN trial_results

\* C19: close leaves the ledger and the cache unchanged; so while the
\* checkpoint root is absent a request for a cached pair is answered from
\* the cache, and a request for an uncached epoch of an id of the ledger
\* invokes the objective function with the id's ledger value, above 0, as
\* previous_epoch.
C19_CloseKeepsLedgerAndCache ==
    [][/\ CloseStep =>
             /\ previous_fidelities' = previous_fidelities
             /\ trial_results' = trial_results
       /\ (Processing /\ ~checkpoint_root) =>
             LET id == PairAt(position)[1]
                 e  == PairAt(position)[2]
             IN /\ <<id, e>> \in DOMAIN trial_results =>
                      /\ Succeeds(<<id, e>>)
                      /\ ~Invokes(<<id, e>>)
                      /\ RunReturned(trial_results[<<id, e>>])
                /\ (<<id, e>> \notin DOMAIN trial_results
                       /\ id \in DOMAIN previous_fidelities) =>
                      /\ Invokes(<<id, e>>)
                      /\ handed'[1].previous_epoch = previous_fidelities[id]
                      /\ handed'[1].previous_epoch > 0]_vars

\* C19 witness: after a close removed the checkpoint root, the objective
\* function was invoked with a previous epoch above 0.
C19_Witness ==
    /\ gw_pc = "running"
    /\ Len(handed) = 1
    /\ handed[1].previous_epoch > 0
    /\ ~handed[1].root_existed

====
